---- MODULE Spec2Model ----
(***************************************************************************)
(* Model of copilot_lmstudio_config/cli.py: the pipeline                   *)
(*   generate_copilot_config -> update_settings_file                       *)
(*     (load JSONC, merge, json.dumps, show_diff_and_confirm,              *)
(*      dated backup, write).                                              *)
(*                                                                         *)
(* Text is a sequence of tokens.  A token stands for a run of characters   *)
(* of the file (a brace, a quoted string, a run of spaces or tabs, a       *)
(* newline, a comment, ...), so a text keeps its line structure and its    *)
(* leading whitespace, and parsing and serialising are real conversions.   *)
(* The content of a file is such a sequence too; it may hold bytes that    *)
(* are no UTF-8 text.                                                      *)
(***************************************************************************)
EXTENDS Integers, Sequences, FiniteSets, TLC

(***************************************************************************)
(* Bounds of the model.                                                    *)
(***************************************************************************)
\* longest catalog the discovery endpoint returns
MaxModels == 3
\* number of times the command is run one after the other
MaxRuns == 2
\* number of file operations (copy, open, write) that fail in a behaviour
MaxFaults == 1

(***************************************************************************)
(* Tokens and texts.                                                       *)
(***************************************************************************)
Tok(k, s, n) == [k |-> k, s |-> s, n |-> n]
LBRACE == Tok("lbrace", "{", 0)
RBRACE == Tok("rbrace", "}", 0)
LBRACK == Tok("lbrack", "[", 0)
RBRACK == Tok("rbrack", "]", 0)
COMMA == Tok("comma", ",", 0)
COLON == Tok("colon", ":", 0)
\* a run of n spaces, a run of n tabs (n >= 1; a text holds no two runs of
\* the same character side by side)
SPS(n) == Tok("sp", " ", n)
TABS(n) == Tok("tab", "\t", n)
SP == SPS(1)
TAB == TABS(1)
NL == Tok("nl", "\n", 0)
\* a quoted string "s"
StrTok(s) == Tok("str", s, 0)
\* a decimal integer literal
NumTok(n) == Tok("num", "", n)
\* true, false, null
LitTok(s) == Tok("lit", s, 0)
\* a comment, line or block (without the newline that ends a line comment)
CommentTok(s) == Tok("comment", s, 0)
\* bytes of a file that do not decode as UTF-8 (ff fe)
BadBytes == Tok("bytes", "ff fe", 0)

(***************************************************************************)
(* Bytes.  A file operation that fails part-way leaves the first bytes of   *)
(* a text, cut at any byte: between two tokens or inside one.  The first k  *)
(* bytes of a run of n spaces are a run of k spaces, those of a number its  *)
(* first k digits; the first k bytes of a string, a literal, a comment are  *)
(* a token of kind "cut_..." that holds the whole token's text and k.       *)
(***************************************************************************)
RECURSIVE Digits(_)
Digits(n) == IF n < 10 THEN 1 ELSE 1 + Digits(n \div 10)

RECURSIVE FirstDigits(_, _)
FirstDigits(n, k) == IF Digits(n) <= k THEN n ELSE FirstDigits(n \div 10, k)

\* the number of bytes of a token (the texts are ASCII, strings hold no
\* character that is escaped)
ByteLen(tok) ==
    CASE tok.k \in {"sp", "tab"} -> tok.n
      [] tok.k = "str" -> Len(tok.s) + 2
      [] tok.k = "num" -> Digits(tok.n)
      [] tok.k \in {"lit", "comment"} -> Len(tok.s)
      [] tok.k = "bytes" -> 2
      [] OTHER -> 1

\* the first k bytes of a token, 0 < k < ByteLen(tok)
CutTok(tok, k) ==
    CASE tok.k \in {"sp", "tab"} -> Tok(tok.k, tok.s, k)
      [] tok.k = "num" -> NumTok(FirstDigits(tok.n, k))
      [] tok.k = "str" -> Tok("cut_str", tok.s, k)
      [] tok.k = "lit" -> Tok("cut_lit", tok.s, k)
      [] tok.k = "comment" -> Tok("cut_comment", tok.s, k)
      [] tok.k = "bytes" -> Tok("cut_bytes", tok.s, k)

\* every text that is the first bytes of text, from none of it to all of it
BytePrefixes(text) ==
    {SubSeq(text, 1, i) : i \in 0..Len(text)}
    \cup UNION {{Append(SubSeq(text, 1, i - 1), CutTok(text[i], k)) :
                    k \in 1..(ByteLen(text[i]) - 1)} : i \in 1..Len(text)}

\* ' ' * n
Spaces(n) == IF n <= 0 THEN <<>> ELSE <<SPS(n)>>

(***************************************************************************)
(* Python values as json5.loads returns them and json.dumps takes them.    *)
(* A dict is its items in insertion order: a sequence of [key, val] with   *)
(* no key twice.                                                           *)
(***************************************************************************)
VStr(s) == [t |-> "str", s |-> s, n |-> 0, m |-> <<>>]
VInt(n) == [t |-> "int", s |-> "", n |-> n, m |-> <<>>]
VBool(b) == [t |-> "bool", s |-> IF b THEN "true" ELSE "false", n |-> 0, m |-> <<>>]
VNull == [t |-> "null", s |-> "null", n |-> 0, m |-> <<>>]
VDict(items) == [t |-> "dict", s |-> "", n |-> 0, m |-> items]
VList(elems) == [t |-> "list", s |-> "", n |-> 0, m |-> elems]
Item(k, v) == [key |-> k, val |-> v]

HasKey(items, k) == \E i \in 1..Len(items) : items[i].key = k
Get(items, k) == items[CHOOSE i \in 1..Len(items) : items[i].key = k].val
Keys(items) == {items[i].key : i \in 1..Len(items)}

\* d[k] = v on a Python dict: an existing key keeps its place, a new key
\* goes last
SetItem(items, k, v) ==
    IF HasKey(items, k)
    THEN [i \in 1..Len(items) |->
            IF items[i].key = k THEN Item(k, v) ELSE items[i]]
    ELSE Append(items, Item(k, v))

(***************************************************************************)
(* Order of strings.  Python compares str by code point; StrOrder lists    *)
(* the strings the model uses in that order.                               *)
(***************************************************************************)
StrOrder ==
    << "", "Z9", "editor.fontSize", "emb1",
       "github.copilot.chat.customOAIModels", "m1",
       "maxInputTokens", "maxOutputTokens", "name", "requiresAPIKey",
       "thinking", "toolCalling", "url", "vision" >>
StrRank(s) == CHOOSE i \in 1..Len(StrOrder) : StrOrder[i] = s
StrLess(a, b) == StrRank(a) < StrRank(b)

\* insert an item into items already sorted by key
RECURSIVE InsertSorted(_, _)
InsertSorted(sorted_items, it) ==
    IF sorted_items = <<>> THEN <<it>>
    ELSE IF StrLess(it.key, Head(sorted_items).key)
         THEN <<it>> \o sorted_items
         ELSE <<Head(sorted_items)>> \o InsertSorted(Tail(sorted_items), it)

\* sorted(d.items(), key=lambda item: item[0]); sorted() is stable
RECURSIVE SortedItems(_)
SortedItems(items) ==
    IF items = <<>> THEN <<>>
    ELSE InsertSorted(SortedItems(SubSeq(items, 1, Len(items) - 1)),
                      items[Len(items)])

(***************************************************************************)
(* json5.loads: a recursive-descent parse of the token text.  White space, *)
(* newlines and comments are skipped, a trailing comma is allowed in       *)
(* objects and arrays, a key given twice keeps its first place and its     *)
(* last value.                                                            *)
(***************************************************************************)
\* a comment cut after its first two bytes is a comment still
IsSkippable(tok) ==
    \/ tok.k \in {"sp", "tab", "nl", "comment"}
    \/ tok.k = "cut_comment" /\ tok.n >= 2

\* the first position from i on that holds no skippable token
\* (Len(text) + 1 at the end of the text)
RECURSIVE SkipWs(_, _)
SkipWs(text, i) ==
    IF i <= Len(text) /\ IsSkippable(text[i]) THEN SkipWs(text, i + 1) ELSE i

\* a parse step yields [ok, val, next]: next is the position after the value
ParseFail == [ok |-> FALSE, val |-> VNull, next |-> 0]
ParseOk(v, next) == [ok |-> TRUE, val |-> v, next |-> next]

RECURSIVE ParseValueAt(_, _), ParseMembersAt(_, _, _), ParseElementsAt(_, _, _),
          AfterMemberValue(_, _, _, _), AfterMember(_, _, _),
          AfterElementValue(_, _, _), AfterElement(_, _, _)

\* a value from position i on, white space and comments before it skipped
ParseValue(text, i) == ParseValueAt(text, SkipWs(text, i))

\* after "{" or after a "," inside an object
ParseMembers(text, i, acc) == ParseMembersAt(text, SkipWs(text, i), acc)

\* after "[" or after a "," inside an array
ParseElements(text, i, acc) == ParseElementsAt(text, SkipWs(text, i), acc)

ParseValueAt(text, t) ==
    IF t > Len(text) THEN ParseFail
    ELSE CASE text[t].k = "str" -> ParseOk(VStr(text[t].s), t + 1)
           [] text[t].k = "num" -> ParseOk(VInt(text[t].n), t + 1)
           [] text[t].k = "lit" ->
                ParseOk(IF text[t].s = "null" THEN VNull
                        ELSE VBool(text[t].s = "true"),
                        t + 1)
           [] text[t].k = "lbrace" -> ParseMembers(text, t + 1, <<>>)
           [] text[t].k = "lbrack" -> ParseElements(text, t + 1, <<>>)
           [] OTHER -> ParseFail

\* t is at "}" or at the key of a member
ParseMembersAt(text, t, acc) ==
    IF t > Len(text) THEN ParseFail
    ELSE IF text[t].k = "rbrace" THEN ParseOk(VDict(acc), t + 1)
    ELSE IF text[t].k # "str" THEN ParseFail
    ELSE AfterMemberValue(text, text[t].s, SkipWs(text, t + 1), acc)

\* c is where the ":" after the key must be
AfterMemberValue(text, key, c, acc) ==
    IF c > Len(text) \/ text[c].k # "colon" THEN ParseFail
    ELSE AfterMember(text, [key |-> key, r |-> ParseValue(text, c + 1)], acc)

\* kr.r is the parse of the value of key kr.key: "," or "}" must follow
AfterMember(text, kr, acc) ==
    IF ~kr.r.ok THEN ParseFail
    ELSE IF SkipWs(text, kr.r.next) > Len(text) THEN ParseFail
    ELSE IF text[SkipWs(text, kr.r.next)].k = "comma"
         THEN ParseMembers(text, SkipWs(text, kr.r.next) + 1,
                           SetItem(acc, kr.key, kr.r.val))
    ELSE IF text[SkipWs(text, kr.r.next)].k = "rbrace"
         THEN ParseOk(VDict(SetItem(acc, kr.key, kr.r.val)),
                      SkipWs(text, kr.r.next) + 1)
    ELSE ParseFail

\* t is at "]" or at the first token of an element
ParseElementsAt(text, t, acc) ==
    IF t > Len(text) THEN ParseFail
    ELSE IF text[t].k = "rbrack" THEN ParseOk(VList(acc), t + 1)
    ELSE AfterElementValue(text, ParseValue(text, t), acc)

AfterElementValue(text, r, acc) ==
    IF ~r.ok THEN ParseFail
    ELSE AfterElement(text, SkipWs(text, r.next), Append(acc, r.val))

\* u is where "," or "]" must be
AfterElement(text, u, acc2) ==
    IF u > Len(text) THEN ParseFail
    ELSE IF text[u].k = "comma" THEN ParseElements(text, u + 1, acc2)
    ELSE IF text[u].k = "rbrack" THEN ParseOk(VList(acc2), u + 1)
    ELSE ParseFail

\* json5.loads(text): ok = FALSE stands for the exception it raises
TopLevel(text, r) ==
    IF r.ok /\ SkipWs(text, r.next) > Len(text)
    THEN [ok |-> TRUE, val |-> r.val]
    ELSE [ok |-> FALSE, val |-> VNull]

json5_loads(text) == TopLevel(text, ParseValue(text, 1))

(***************************************************************************)
(* json.dumps(obj, indent=indent): items one per line, indent * level      *)
(* spaces before each, ", " never used: "," ends a line, ": " follows a    *)
(* key, an empty dict is "{}" and an empty list "[]", no final newline.    *)
(***************************************************************************)
RECURSIVE DumpsAt(_, _, _), DumpItems(_, _, _), DumpElems(_, _, _)
DumpsAt(v, indent, level) ==
    CASE v.t = "str" -> <<StrTok(v.s)>>
      [] v.t = "int" -> <<NumTok(v.n)>>
      [] v.t = "bool" -> <<LitTok(v.s)>>
      [] v.t = "null" -> <<LitTok("null")>>
      [] v.t = "dict" ->
           IF v.m = <<>> THEN <<LBRACE, RBRACE>>
           ELSE <<LBRACE, NL>> \o DumpItems(v.m, indent, level + 1)
                \o <<NL>> \o Spaces(indent * level) \o <<RBRACE>>
      [] v.t = "list" ->
           IF v.m = <<>> THEN <<LBRACK, RBRACK>>
           ELSE <<LBRACK, NL>> \o DumpElems(v.m, indent, level + 1)
                \o <<NL>> \o Spaces(indent * level) \o <<RBRACK>>

DumpItems(items, indent, level) ==
    LET one == Spaces(indent * level)
               \o <<StrTok(Head(items).key), COLON, SP>>
               \o DumpsAt(Head(items).val, indent, level)
    IN IF Len(items) = 1 THEN one
       ELSE one \o <<COMMA, NL>> \o DumpItems(Tail(items), indent, level)

DumpElems(elems, indent, level) ==
    LET one == Spaces(indent * level) \o DumpsAt(Head(elems), indent, level)
    IN IF Len(elems) = 1 THEN one
       ELSE one \o <<COMMA, NL>> \o DumpElems(Tail(elems), indent, level)

json_dumps(v, indent) == DumpsAt(v, indent, 0)

(***************************************************************************)
(* str.splitlines                                                          *)
(***************************************************************************)
\* position of the first newline of content from i on, 0 if none
RECURSIVE FirstNL(_, _)
FirstNL(content, i) ==
    IF i > Len(content) THEN 0
    ELSE IF content[i].k = "nl" THEN i
    ELSE FirstNL(content, i + 1)

\* the lines of content from position i on
RECURSIVE LinesFrom(_, _, _)
LinesFrom(content, i, keepends) ==
    IF i > Len(content) THEN <<>>
    ELSE LET j == FirstNL(content, i) IN
         IF j = 0 THEN <<SubSeq(content, i, Len(content))>>
         ELSE <<SubSeq(content, i, IF keepends THEN j ELSE j - 1)>>
              \o LinesFrom(content, j + 1, keepends)

\* content.splitlines(keepends): the lines of a text, a final line without
\* newline included, no empty line after a final newline
splitlines(content, keepends) == LinesFrom(content, 1, keepends)

(***************************************************************************)
(* detect_indentation                                                      *)
(***************************************************************************)
IsIndentChar(tok) == tok.k \in {"sp", "tab"}

\* lines 76-81: the length of the run of spaces and tabs a line starts with
RECURSIVE LeadingWhitespace(_)
LeadingWhitespace(line) ==
    IF line # <<>> /\ IsIndentChar(Head(line))
    THEN Head(line).n + LeadingWhitespace(Tail(line))
    ELSE 0

\* lines 73-85: the first line that starts with a space or a tab decides,
\* 2 if there is none
RECURSIVE FirstIndent(_)
FirstIndent(lines) ==
    IF lines = <<>> THEN 2
    ELSE IF Head(lines) # <<>> /\ IsIndentChar(Head(lines)[1])
         THEN LeadingWhitespace(Head(lines))
         ELSE FirstIndent(Tail(lines))

detect_indentation(content) == FirstIndent(splitlines(content, FALSE))

(***************************************************************************)
(* Model descriptors of the discovery endpoint and generate_copilot_config *)
(***************************************************************************)
\* a descriptor: each of id, type, capabilities, max_context_length may be
\* missing from the JSON object
Descriptor(has_id, id, has_type, type, has_caps, caps, has_max, max) ==
    [has_id |-> has_id, id |-> id, has_type |-> has_type, type |-> type,
     has_caps |-> has_caps, caps |-> caps,
     has_max |-> has_max, max_context_length |-> max]

DescLLM == Descriptor(TRUE, "m1", TRUE, "llm", TRUE, {"tool_use"}, TRUE, 4096)
DescVLM == Descriptor(TRUE, "Z9", TRUE, "vlm", FALSE, {}, FALSE, 0)
DescEmbedding ==
    Descriptor(TRUE, "emb1", TRUE, "embedding", TRUE, {}, TRUE, 2048)
DescLLMNoId == Descriptor(FALSE, "", TRUE, "llm", TRUE, {"vision"}, TRUE, 4096)
DescOtherNoId == Descriptor(FALSE, "", TRUE, "embedding", FALSE, {}, FALSE, 0)
DescriptorPool ==
    {DescLLM, DescVLM, DescEmbedding, DescLLMNoId, DescOtherNoId}

\* sequences of at most n descriptors of the pool, none twice (identifiers
\* are unique within a catalog response)
RECURSIVE CatalogsUpTo(_)
CatalogsUpTo(n) ==
    IF n = 0 THEN {<<>>}
    ELSE LET shorter == CatalogsUpTo(n - 1) IN
         shorter \cup
         {Append(c, d) : <<c, d>> \in
            {x \in shorter \X DescriptorPool :
                /\ Len(x[1]) = n - 1
                /\ \A i \in 1..Len(x[1]) : x[1][i] # x[2]}}
Catalogs == CatalogsUpTo(MaxModels)

\* the catalogs the server of the pipeline runs answers with
ServedCatalogs ==
    { <<DescOtherNoId, DescVLM>>,
      <<DescLLM, DescLLMNoId>> }

\* --base-url default, written as "url" of every entry
OpenaiUrl == "http://localhost:3000/v1"
\* model.get("max_context_length", 8192)
DefaultMaxContext == 8192

\* model.get("type") not in ["llm", "vlm"]
IsIncluded(model) == model.has_type /\ model.type \in {"llm", "vlm"}

\* the dict literal of one model, keys in the order the code writes them
ModelEntry(model, openai_url) ==
    LET capabilities == IF model.has_caps THEN model.caps ELSE {}
        max_context == IF model.has_max THEN model.max_context_length
                       ELSE DefaultMaxContext
    IN VDict(<< Item("name", VStr(model.id)),
                Item("url", VStr(openai_url)),
                Item("toolCalling", VBool("tool_use" \in capabilities)),
                Item("vision", VBool("vision" \in capabilities)),
                Item("thinking", VBool(TRUE)),
                Item("maxInputTokens", VInt(max_context)),
                Item("maxOutputTokens", VInt(max_context)),
                Item("requiresAPIKey", VBool(FALSE)) >>)

\* RaisesKeyError with model.get("id") in place of model["id"]
NeverRaisesKeyError(model) == FALSE

\* line 132: model["id"] raises KeyError when an included descriptor has
\* no "id"
RaisesKeyError(model) == IsIncluded(model) /\ ~model.has_id

\* the loop over models: [ok, config]; ok = FALSE is the KeyError of
\* model["id"], raised at the first included descriptor without "id"
RECURSIVE BuildConfig(_, _, _)
BuildConfig(models, openai_url, config) ==
    IF models = <<>> THEN [ok |-> TRUE, config |-> config]
    ELSE LET model == Head(models) IN
         IF ~IsIncluded(model)
         THEN BuildConfig(Tail(models), openai_url, config)
         ELSE IF RaisesKeyError(model)
         THEN [ok |-> FALSE, config |-> <<>>]
         ELSE BuildConfig(Tail(models), openai_url,
                          SetItem(config, model.id,
                                  ModelEntry(model, openai_url)))

\* OrderConfig that returns config as the loop built it
OrderConfigUnsorted(config) == config

\* ordered[model_id] = OrderedDict(sorted(v.items())) for model_id in
\* sorted(config.keys())
OrderConfig(config) ==
    LET by_id == SortedItems(config) IN
    [i \in 1..Len(by_id) |->
        Item(by_id[i].key, VDict(SortedItems(by_id[i].val.m)))]

generate_copilot_config(models, openai_url) ==
    LET built == BuildConfig(models, openai_url, <<>>) IN
    IF built.ok THEN [ok |-> TRUE, config |-> OrderConfig(built.config)]
    ELSE [ok |-> FALSE, config |-> <<>>]

(***************************************************************************)
(* Files.                                                                  *)
(***************************************************************************)
\* a path of the file system: whether something is there (Path.exists()),
\* whether it is a directory (open() raises IsADirectoryError), and the
\* content of a regular file
File(text) == [exists |-> TRUE, text |-> text, dir |-> FALSE]
NoFile == [exists |-> FALSE, text |-> <<>>, dir |-> FALSE]
Directory == [exists |-> TRUE, text |-> <<>>, dir |-> TRUE]

\* f.read() with encoding='utf-8' raises UnicodeDecodeError on such bytes
Decodes(text) ==
    \A i \in 1..Len(text) : text[i].k \notin {"bytes", "cut_bytes"}

\* lines 166-167: open(settings_file, 'r', encoding='utf-8') and f.read()
\* both succeed
CanRead(file) == ~file.dir /\ Decodes(file.text)

ConfigKey == "github.copilot.chat.customOAIModels"

\* settings files the command may find when it starts
\* {
\*     // user settings
\*     "editor.fontSize": 14,
\* }
FileJsonc ==
    File(<<LBRACE, NL>> \o Spaces(4) \o <<CommentTok("// user settings"), NL>>
         \o Spaces(4) \o <<StrTok("editor.fontSize"), COLON, SP, NumTok(14),
                           COMMA, NL, RBRACE, NL>>)
\* tab-indented, the configuration key already there, before another key
FileWithConfig ==
    File(<<LBRACE, NL, TAB, StrTok(ConfigKey), COLON, SP, LBRACE, RBRACE,
           COMMA, NL, TAB, StrTok("editor.fontSize"), COLON, SP, NumTok(14),
           NL, RBRACE>>)
\* no colon after the key: json5 raises; three tabs of indentation
FileUnparsable ==
    File(<<LBRACE, NL, TABS(3), StrTok("editor.fontSize"), SP,
           NumTok(14), NL, RBRACE, NL>>)
FileEmpty == File(<<>>)
\* three tabs of indentation, a string value that is no UTF-8
FileUndecodable ==
    File(<<LBRACE, NL, TABS(3), StrTok("editor.fontSize"), COLON, SP,
           BadBytes, COMMA, NL, RBRACE, NL>>)
\* [] : valid JSON5 that is no object
FileArray == File(<<LBRACK, RBRACK>>)
InitialFiles ==
    {NoFile, FileEmpty, FileUnparsable, FileJsonc, FileWithConfig, FileArray,
     FileUndecodable, Directory}

\* line 200: datetime.now().strftime("%y%m%d").  The runs of a behaviour
\* take place on one day, the day on which backup names can collide; the
\* directory may hold backups of the day before.
date_tag == "250924"
Yesterday == "250923"
DateTags == {Yesterday, date_tag}
BackupIndexes == 0..(MaxRuns + 1)
\* the path <stem>.<date_tag>-<index>.backup.json
BackupPath(tag, index) == <<tag, index>>
BackupPaths == {BackupPath(d, i) : d \in DateTags, i \in BackupIndexes}
NoBackups == [p \in BackupPaths |-> NoFile]
OldBackup == File(<<LBRACE, RBRACE>>)
\* none; or index 1 of the day (index 0 is free) together with index 0 of
\* the day before.  Index 0 of the day is taken by the first applied run
InitialBackups ==
    {NoBackups,
     [NoBackups EXCEPT ![BackupPath(date_tag, 1)] = OldBackup,
                       ![BackupPath(Yesterday, 0)] = OldBackup]}

(***************************************************************************)
(* The pieces of update_settings_file and show_diff_and_confirm.           *)
(***************************************************************************)
\* LoadSettings with old_content assigned only after a successful parse
LoadSettingsTextAfterParse(file) ==
    IF ~file.exists
    THEN [old_content |-> <<>>, settings |-> VDict(<<>>), warned |-> FALSE]
    ELSE IF ~CanRead(file)
    THEN [old_content |-> <<>>, settings |-> VDict(<<>>), warned |-> TRUE]
    ELSE LET parsed == json5_loads(file.text) IN
         [old_content |-> IF parsed.ok THEN file.text ELSE <<>>,
          settings |-> IF parsed.ok THEN parsed.val ELSE VDict(<<>>),
          warned |-> ~parsed.ok]

\* lines 161-176: the text read and the document parsed from it.  The try
\* encloses open, f.read and json5.loads: when open or read raises,
\* old_content is still "" and settings = {}; when json5.loads raises,
\* old_content is the text read and settings = {}
LoadSettings(file) ==
    IF ~file.exists
    THEN [old_content |-> <<>>, settings |-> VDict(<<>>), warned |-> FALSE]
    ELSE IF ~CanRead(file)
    THEN [old_content |-> <<>>, settings |-> VDict(<<>>), warned |-> TRUE]
    ELSE LET parsed == json5_loads(file.text) IN
         [old_content |-> file.text,
          settings |-> IF parsed.ok THEN parsed.val ELSE VDict(<<>>),
          warned |-> ~parsed.ok]

\* line 179
OriginalIndent(old_content) ==
    IF old_content # <<>> THEN detect_indentation(old_content) ELSE 2

\* MergeConfig as settings = {key: config}: the document is replaced
MergeConfigReplacesDocument(settings, config) ==
    IF settings.t = "dict"
    THEN [ok |-> TRUE, settings |-> VDict(<<Item(ConfigKey, VDict(config))>>)]
    ELSE [ok |-> FALSE, settings |-> settings]

\* line 182: settings[key] = config changes the dict in place; ok = FALSE is
\* the TypeError raised when the parsed value is no dict, which is left as
\* it was
MergeConfig(settings, config) ==
    IF settings.t = "dict"
    THEN [ok |-> TRUE,
          settings |-> VDict(SetItem(settings.m, ConfigKey, VDict(config)))]
    ELSE [ok |-> FALSE, settings |-> settings]

RECURSIVE Reverse(_)
Reverse(a) == IF a = <<>> THEN <<>> ELSE Append(Reverse(Tail(a)), Head(a))

\* Unchanged with keepends on one side only: new_content.splitlines()
UnchangedKeependsOnOldOnly(old_text, new_text) ==
    splitlines(old_text, TRUE) = splitlines(new_text, FALSE)

\* lines 92-101: `not changes`.  difflib.ndiff(old_lines, new_lines) yields
\* a line that starts with '-' or '+' exactly when the two lists of lines
\* differ, so changes is empty exactly when they are equal
Unchanged(old_text, new_text) ==
    splitlines(old_text, TRUE) = splitlines(new_text, TRUE)

\* input(...).strip().lower().  A response is a sequence of characters,
\* each its Unicode code point.
\* str.strip() removes the characters str.isspace() holds of
IsSpaceChar(c) ==
    \/ c \in 9..13
    \/ c \in 28..32
    \/ c \in {133, 160, 5760, 8232, 8233, 8239, 8287, 12288}
    \/ c \in 8192..8202
RECURSIVE LStrip(_)
LStrip(cs) == IF cs # <<>> /\ IsSpaceChar(Head(cs)) THEN LStrip(Tail(cs)) ELSE cs
Strip(cs) == Reverse(LStrip(Reverse(LStrip(cs))))
\* str.lower() of a character up to U+00FF: A-Z and the cased letters of
\* Latin-1 (not the sign U+00D7) are 32 below their lower case.  Responses
\* holds such characters only; no character above U+00FF lowers to an
\* ASCII letter of "yes"
LowerChar(c) ==
    IF c \in 65..90 \/ c \in 192..214 \/ c \in 216..222 THEN c + 32 ELSE c
Lower(cs) == [i \in 1..Len(cs) |-> LowerChar(cs[i])]

\* lines 114-117
Confirm(response) ==
    IF Lower(Strip(response)) \in {<<121>>, <<121, 101, 115>>}
    THEN "apply" ELSE "cancel"

\* what the user may type at the prompt: "y", " YES\r", "\xa0y\x0b", "n",
\* "", "YEP", "No"
Responses ==
    { <<121>>, <<32, 89, 69, 83, 13>>, <<160, 121, 11>>, <<110>>, <<>>,
      <<89, 69, 80>>, <<78, 111>> }

\* ProceedsToWrite with the test for 'cancel' left out
ProceedsUnlessUnchanged(d) == d # "unchanged"

\* lines 189-194: only 'apply' goes on to the backup and the write
ProceedsToWrite(d) == d = "apply"

\* NeedsBackup with the backup block left out
BackupSkipped(file) == FALSE

\* line 197
NeedsBackup(file) == file.exists

\* FreeIndex without the loop: index 0 whatever exists
FreeIndexNoLoop(files, tag, index) == index

\* lines 203-209: the first index whose backup path does not exist
RECURSIVE FreeIndex(_, _, _)
FreeIndex(files, tag, index) ==
    IF ~files[BackupPath(tag, index)].exists THEN index
    ELSE FreeIndex(files, tag, index + 1)

\* exit(1) of main's exception handlers
ExitFailure == 1
\* sys.exit(0) after 'cancel'
ExitCancel == 0

(***************************************************************************)
(* State.                                                                  *)
(***************************************************************************)
VARIABLES
    target,       \* the settings file at settings_path
    backups,      \* the sibling backup files, by path
    catalog,      \* the "data" list the discovery endpoint answers with
    pc,           \* where the command is: idle, prompt, backup, open, write, done
    runs,         \* runs of the command started so far
    mode,         \* "file": a settings path was given; "stdout": none
    error,        \* the exception that ended the run, "none" if none
    exit_code,    \* the exit status of the run once pc = "done", else -1
    config,       \* generate_copilot_config's result
    old_content,  \* update_settings_file's locals
    settings,
    indent,
    new_content,
    decision,
    backup_path,
    pre_target,   \* target as the current run found it
    pre_backups,  \* backups as the current run found them
    prev,         \* how the run before the current one went
    faults        \* file operations that failed so far

files == <<target, backups>>
env == <<catalog, faults>>
locals == <<config, old_content, settings, indent, new_content, decision,
            backup_path>>
history == <<pre_target, pre_backups, prev>>
vars == <<target, backups, catalog, pc, runs, mode, error, exit_code,
          config, old_content, settings, indent, new_content, decision,
          backup_path, pre_target, pre_backups, prev, faults>>

NoPath == <<"", 0>>
NoPrev == [applied |-> FALSE, catalog |-> <<>>]

Init ==
    /\ target \in InitialFiles
    /\ backups \in InitialBackups
    /\ catalog \in ServedCatalogs
    /\ pc = "idle"
    /\ runs = 0
    /\ mode = "file"
    /\ error = "none"
    /\ exit_code = -1
    /\ config = <<>>
    /\ old_content = <<>>
    /\ settings = VDict(<<>>)
    /\ indent = 2
    /\ new_content = <<>>
    /\ decision = "none"
    /\ backup_path = NoPath
    /\ pre_target = target
    /\ pre_backups = backups
    /\ prev = NoPrev
    /\ faults = 0

\* the run ends with an exception main reports: exit(1)
Raise(e) ==
    /\ pc' = "done"
    /\ error' = e
    /\ exit_code' = ExitFailure

\* the run ends without an exception
Return(code) ==
    /\ pc' = "done"
    /\ error' = "none"
    /\ exit_code' = code

\* a file operation raises OSError, at most MaxFaults times in a behaviour
Fault ==
    /\ faults < MaxFaults
    /\ faults' = faults + 1

\* the command is started
BeginRun(m) ==
    /\ pc = "idle"
    /\ runs < MaxRuns
    /\ runs' = runs + 1
    /\ mode' = m
    /\ UNCHANGED <<files, env, backup_path, history>>

NoLocals ==
    /\ config' = <<>>
    /\ old_content' = <<>>
    /\ settings' = VDict(<<>>)
    /\ indent' = 2
    /\ new_content' = <<>>
    /\ decision' = "none"

\* main, lines 325-330 and update_settings_file up to the prompt of
\* show_diff_and_confirm: fetch, synthesize, load, merge, serialize, diff
StartRun ==
    /\ BeginRun("file")
    /\ \E fetch_ok \in BOOLEAN :
        IF ~fetch_ok THEN Raise("RequestException") /\ NoLocals
        ELSE
        LET gen == generate_copilot_config(catalog, OpenaiUrl) IN
        IF ~gen.ok THEN Raise("KeyError") /\ NoLocals
        ELSE
        LET loaded == LoadSettings(target)
            ind == OriginalIndent(loaded.old_content)
            merged == MergeConfig(loaded.settings, gen.config)
        IN
        /\ config' = gen.config
        /\ old_content' = loaded.old_content
        /\ settings' = merged.settings
        /\ indent' = ind
        /\ IF ~merged.ok
           THEN /\ Raise("TypeError")
                /\ new_content' = <<>>
                /\ decision' = "none"
           ELSE LET text == json_dumps(merged.settings, ind) IN
                /\ new_content' = text
                /\ IF Unchanged(loaded.old_content, text)
                   THEN /\ decision' = "unchanged"
                        /\ Return(0)
                   ELSE /\ decision' = "none"
                        /\ pc' = "prompt"
                        /\ UNCHANGED <<error, exit_code>>

\* main, lines 331-334: no settings path, the configuration is printed
PrintConfig ==
    /\ BeginRun("stdout")
    /\ \E fetch_ok \in BOOLEAN :
        IF ~fetch_ok THEN Raise("RequestException") /\ NoLocals
        ELSE
        LET gen == generate_copilot_config(catalog, OpenaiUrl) IN
        IF ~gen.ok THEN Raise("KeyError") /\ NoLocals
        ELSE /\ Return(0)
             /\ config' = gen.config
             /\ UNCHANGED <<old_content, settings, indent, new_content,
                            decision>>

\* lines 114-117 and 188-194: the user answers the prompt
Answer ==
    /\ pc = "prompt"
    /\ \E response \in Responses :
        LET d == Confirm(response) IN
        /\ decision' = d
        /\ IF ProceedsToWrite(d)
           THEN /\ pc' = IF NeedsBackup(target) THEN "backup" ELSE "open"
                /\ UNCHANGED <<error, exit_code>>
           ELSE Return(ExitCancel)
    /\ UNCHANGED <<files, env, runs, mode, config, old_content, settings,
                   indent, new_content, backup_path, history>>

\* line 114: input() raises EOFError, standard input is closed
AnswerEOF ==
    /\ pc = "prompt"
    /\ Raise("EOFError")
    /\ UNCHANGED <<files, env, runs, mode, locals, history>>

\* lines 197-212: the dated backup, shutil.copy2 succeeds
Backup ==
    /\ pc = "backup"
    /\ ~target.dir
    /\ LET path == BackupPath(date_tag, FreeIndex(backups, date_tag, 0))
       IN /\ backup_path' = path
          /\ backups' = [backups EXCEPT ![path] = File(target.text)]
    /\ pc' = "open"
    /\ UNCHANGED <<target, env, runs, mode, error, exit_code, config,
                   old_content, settings, indent, new_content, decision,
                   history>>

\* line 211: shutil.copy2 raises OSError.  On a directory it does so every
\* time (IsADirectoryError), before it created the backup file.  On a file
\* it may fail before it created the backup file, or after it wrote a part
\* of it (all of it when copying the metadata fails)
BackupFails ==
    /\ pc = "backup"
    /\ LET path == BackupPath(date_tag, FreeIndex(backups, date_tag, 0))
       IN /\ backup_path' = path
          /\ IF target.dir
             THEN /\ backups' = [backups EXCEPT ![path] = NoFile]
                  /\ UNCHANGED faults
             ELSE /\ Fault
                  /\ \E part \in {NoFile} \cup
                          {File(part_text) :
                              part_text \in BytePrefixes(target.text)} :
                        backups' = [backups EXCEPT ![path] = part]
    /\ Raise("OSError")
    /\ UNCHANGED <<target, catalog, runs, mode, config, old_content,
                   settings, indent, new_content, decision, history>>

\* line 215: open(settings_file, 'w') creates or truncates the file
Open ==
    /\ pc = "open"
    /\ ~target.dir
    /\ target' = File(<<>>)
    /\ pc' = "write"
    /\ UNCHANGED <<backups, env, runs, mode, error, exit_code, locals,
                   history>>

\* line 215: open(settings_file, 'w') raises OSError (no permission to
\* write, the directory is gone): the file is not touched
OpenFails ==
    /\ pc = "open"
    /\ Raise("OSError")
    /\ Fault
    /\ UNCHANGED <<files, catalog, runs, mode, locals, history>>

\* line 216 and the close of the with block: the new text is in the file
Write ==
    /\ pc = "write"
    /\ target' = File(new_content)
    /\ Return(0)
    /\ UNCHANGED <<backups, env, runs, mode, locals, history>>

\* line 216: the write (or the flush of the close) raises OSError when
\* a part of the text, possibly none of it, is in the file
WriteFails ==
    /\ pc = "write"
    /\ \E part_text \in BytePrefixes(new_content) \ {new_content} :
          target' = File(part_text)
    /\ Raise("OSError")
    /\ Fault
    /\ UNCHANGED <<backups, catalog, runs, mode, locals, history>>

\* the process is gone, and its locals with it; the files stay as the run
\* left them, whatever way it ended
Exit ==
    /\ pc = "done"
    /\ runs < MaxRuns
    /\ pc' = "idle"
    /\ mode' = "file"
    /\ error' = "none"
    /\ exit_code' = -1
    /\ NoLocals
    /\ backup_path' = NoPath
    /\ pre_target' = target
    /\ pre_backups' = backups
    /\ prev' = [applied |-> mode = "file" /\ decision = "apply"
                            /\ exit_code = 0,
                catalog |-> catalog]
    /\ UNCHANGED <<files, env, runs>>

\* a model is unloaded from the server between two runs
ModelUnloaded ==
    /\ pc = "idle"
    /\ runs > 0
    /\ catalog # <<>>
    /\ catalog' = Tail(catalog)
    /\ UNCHANGED <<files, faults, pc, runs, mode, error, exit_code, locals,
                   history>>

Next ==
    \/ StartRun
    \/ PrintConfig
    \/ Answer
    \/ AnswerEOF
    \/ Backup
    \/ BackupFails
    \/ Open
    \/ OpenFails
    \/ Write
    \/ WriteFails
    \/ Exit
    \/ ModelUnloaded

Spec == Init /\ [][Next]_vars

(***************************************************************************)
(* The synthesizer alone, on every catalog of at most MaxModels            *)
(* descriptors: generate_copilot_config is applied once.                   *)
(***************************************************************************)
InitSynth ==
    /\ target = NoFile
    /\ backups = NoBackups
    /\ catalog \in Catalogs
    /\ pc = "idle"
    /\ runs = 0
    /\ mode = "stdout"
    /\ error = "none"
    /\ exit_code = -1
    /\ config = <<>>
    /\ old_content = <<>>
    /\ settings = VDict(<<>>)
    /\ indent = 2
    /\ new_content = <<>>
    /\ decision = "none"
    /\ backup_path = NoPath
    /\ pre_target = NoFile
    /\ pre_backups = NoBackups
    /\ prev = NoPrev
    /\ faults = 0

\* line 326: config = generate_copilot_config(api_base, openai_url)
Synthesize ==
    /\ pc = "idle"
    /\ LET gen == generate_copilot_config(catalog, OpenaiUrl) IN
       /\ config' = gen.config
       /\ error' = IF gen.ok THEN "none" ELSE "KeyError"
    /\ pc' = "synthesized"
    /\ UNCHANGED <<files, env, runs, mode, exit_code, old_content, settings,
                   indent, new_content, decision, backup_path, history>>

NextSynth == Synthesize

SpecSynth == InitSynth /\ [][NextSynth]_vars

(***************************************************************************)
(* Properties.                                                             *)
(***************************************************************************)
FilesUntouched == target = pre_target /\ backups = pre_backups

\* the state StartRun leaves when it got as far as the diff
AfterDiff == pc = "prompt" \/ (pc = "done" /\ decision = "unchanged")

\* C1: a run whose decision is not Apply (Unchanged, or Cancel after any
\* answer other than y/yes) leaves the target as it found it and creates no
\* backup file; the target is written and a backup created only after the
\* decision Apply.
C1_NoWriteUnlessApply ==
    /\ (pc = "done" /\ decision \in {"unchanged", "cancel"}) => FilesUntouched
    /\ ~FilesUntouched => decision = "apply"

\* the user declined a real diff of an existing file
C1_Witness ==
    /\ pc = "done"
    /\ decision = "cancel"
    /\ pre_target.exists
    /\ old_content # new_content
    /\ FilesUntouched

\* C2: when the target existed, it differs from its pre-run content only in
\* states where the backup of this run holds the full pre-run content, at a
\* path that was free; so a failed backup is never followed by an overwrite.
C2_BackupBeforeOverwrite ==
    (pre_target.exists /\ target # pre_target) =>
        /\ backup_path # NoPath
        /\ ~pre_backups[backup_path].exists
        /\ backups[backup_path] = pre_target

\* the target was truncated by open and the backup holds what it held
C2_Witness ==
    /\ pc = "write"
    /\ pre_target.exists
    /\ pre_target.text # <<>>
    /\ target = File(<<>>)
    /\ backups[backup_path] = pre_target

\* C3: a file-mode run that follows an applied run, against the same
\* catalog and the file that run wrote, decides Unchanged, creates no backup
\* and leaves the file untouched.
C3_Idempotent ==
    (/\ prev.applied
     /\ prev.catalog = catalog
     /\ mode = "file"
     /\ pc # "idle"
     /\ error # "RequestException") =>
        /\ pc = "done"
        /\ decision = "unchanged"
        /\ exit_code = 0
        /\ FilesUntouched

\* the second run found the 4-space document the first run wrote, with an
\* unrelated key and at least one model in it
C3_Witness ==
    /\ prev.applied
    /\ prev.catalog = catalog
    /\ mode = "file"
    /\ pc = "done"
    /\ decision = "unchanged"
    /\ indent = 4
    /\ config # <<>>
    /\ HasKey(settings.m, "editor.fontSize")

\* C4: no step changes a backup file that exists, and a backup file is
\* created only at the path of the current date with the smallest index
\* whose path does not exist.
C4_BackupNeverOverwritten ==
    [][\A p \in BackupPaths :
          /\ backups[p].exists => backups'[p] = backups[p]
          /\ backups'[p] # backups[p] =>
                /\ p[1] = date_tag
                /\ \A n \in 0..(p[2] - 1) :
                      backups[BackupPath(p[1], n)].exists]_vars

\* index 0 of the day was taken before the run, the run wrote index 1 and
\* index 0 is as it was
C4_Witness ==
    /\ backup_path = BackupPath(date_tag, 1)
    /\ pre_backups[BackupPath(date_tag, 0)].exists
    /\ backups[backup_path] = pre_target
    /\ backups[BackupPath(date_tag, 0)]
         = pre_backups[BackupPath(date_tag, 0)]

\* C5: after the decision Apply the target holds, in every state, either
\* the complete prior content or the complete new serialized document.
C5_TargetWholeOldOrNew ==
    decision = "apply" => (target = pre_target \/ target = File(new_content))

\* the run got as far as loading the settings file
RunLoadedFile ==
    /\ mode = "file"
    /\ pc # "idle"
    /\ error \notin {"RequestException", "KeyError"}

\* the run found a file whose text parses as JSONC
FoundDocument ==
    /\ pre_target.exists
    /\ CanRead(pre_target)
    /\ json5_loads(pre_target.text).ok

\* the new document, parsed back, holds every key of the mapping old other
\* than the configuration key with its value unchanged, the configuration
\* key with the synthesized mapping, and no other key
MergedFrom(old) ==
    LET new == json5_loads(new_content) IN
    /\ new.ok
    /\ new.val.t = "dict"
    /\ \A k \in Keys(old) \ {ConfigKey} :
          HasKey(new.val.m, k) /\ Get(new.val.m, k) = Get(old, k)
    /\ Keys(new.val.m) = Keys(old) \cup {ConfigKey}
    /\ Get(new.val.m, ConfigKey) = VDict(config)

\* C6 as stated: for every existing settings document the merge succeeds,
\* and every key of the document other than the configuration key is in the
\* new document with its value unchanged.
C6_MergeAlwaysSucceeds ==
    (RunLoadedFile /\ FoundDocument) =>
        LET doc == json5_loads(pre_target.text).val IN
        /\ error # "TypeError"
        /\ doc.t = "dict" => MergedFrom(doc.m)

\* C6 amended: for every existing settings document whose top-level value
\* is an object the merge succeeds, every key of the document other than
\* the configuration key is in the new document with its value unchanged,
\* the configuration key holds the synthesized mapping and there is no other
\* key; for a document whose top-level value is not an object the merge
\* raises TypeError, and the run exits 1 with the files untouched.
C6_NonDestructiveMerge ==
    (RunLoadedFile /\ FoundDocument) =>
        LET doc == json5_loads(pre_target.text).val IN
        IF doc.t = "dict"
        THEN /\ error # "TypeError"
             /\ MergedFrom(doc.m)
             /\ new_content = json_dumps(settings, indent)
        ELSE /\ pc = "done"
             /\ error = "TypeError"
             /\ exit_code = ExitFailure
             /\ FilesUntouched

\* the document of the file held an unrelated key and an older
\* configuration; the merged document holds the key and the new one
C6_Witness ==
    /\ pc = "prompt"
    /\ FoundDocument
    /\ LET doc == json5_loads(pre_target.text).val IN
       /\ doc.t = "dict"
       /\ HasKey(doc.m, "editor.fontSize")
       /\ HasKey(doc.m, ConfigKey)
       /\ Get(doc.m, ConfigKey) # VDict(config)
    /\ HasKey(settings.m, "editor.fontSize")
    /\ Get(settings.m, ConfigKey) = VDict(config)
    /\ config # <<>>

\* C7: a run that ends with decision Cancel exits with a status that is
\* neither 0 nor the status of a crash, and status 0 is the exit of a
\* success or of an unchanged file only.
C7_CancelExitsNonZero ==
    /\ (pc = "done" /\ decision = "cancel") =>
          (exit_code # 0 /\ exit_code # ExitFailure)
    /\ (pc = "done" /\ exit_code = 0) =>
          (mode = "stdout" \/ decision \in {"apply", "unchanged"})

\* the run found a file whose text was read and does not parse as JSONC
FoundUnparsable ==
    /\ pre_target.exists
    /\ CanRead(pre_target)
    /\ ~json5_loads(pre_target.text).ok

\* C8: whenever the target exists and its text does not parse as JSONC, the
\* run goes on with an empty document and the raw text of the file: the
\* document after the merge is the one configuration key, the new text is
\* that document serialized with the indentation inferred from the raw text
\* (2 when it is empty), the diff is against the raw text and is never
\* empty, and the file changes only after Apply and a backup of the
\* unparsable file.
C8_UnparsableFileRecovered ==
    (RunLoadedFile /\ FoundUnparsable) =>
        /\ error # "TypeError"
        /\ settings = VDict(<<Item(ConfigKey, VDict(config))>>)
        /\ old_content = pre_target.text
        /\ indent = IF pre_target.text = <<>> THEN 2
                    ELSE detect_indentation(pre_target.text)
        /\ new_content = json_dumps(settings, indent)
        /\ decision # "unchanged"
        /\ target # pre_target =>
              (decision = "apply" /\ backups[backup_path] = pre_target)

\* the unparsable file, indented by three tabs, was backed up and replaced
\* by a document indented by three spaces
C8_Witness ==
    /\ pc = "done"
    /\ decision = "apply"
    /\ pre_target = FileUnparsable
    /\ indent = 3
    /\ target = File(new_content)
    /\ backups[backup_path] = FileUnparsable

MissingId(c) == \E i \in 1..Len(c) : ~c[i].has_id
IncludedMissingId(c) ==
    \E i \in 1..Len(c) :
        c[i].has_type /\ c[i].type \in {"llm", "vlm"} /\ ~c[i].has_id
Aborted == pc = "done" /\ exit_code # 0 /\ FilesUntouched

\* C9 as stated: every run whose catalog holds a descriptor without "id",
\* whatever its type, aborts with a non-zero exit and writes no file.
C9_AnyMissingIdIsFatal ==
    (pc # "idle" /\ error # "RequestException" /\ MissingId(catalog))
        => Aborted

\* C9 amended: every run whose catalog holds a descriptor of type llm or
\* vlm without "id" aborts with a non-zero exit and writes no file; a
\* descriptor of another type without "id" is skipped without error; a
\* missing "capabilities" is treated as empty and a missing
\* "max_context_length" as 8192, without error.
C9_IncludedMissingIdIsFatal ==
    /\ (pc # "idle" /\ error # "RequestException"
          /\ IncludedMissingId(catalog))
          => (Aborted /\ error = "KeyError")
    /\ (pc # "idle" /\ error # "RequestException"
          /\ ~IncludedMissingId(catalog)) =>
          /\ error # "KeyError"
          /\ \A i \in 1..Len(catalog) :
                (catalog[i].has_type /\ catalog[i].type \in {"llm", "vlm"}) =>
                    /\ HasKey(config, catalog[i].id)
                    /\ LET e == Get(config, catalog[i].id).m IN
                       /\ ~catalog[i].has_caps =>
                             /\ Get(e, "toolCalling") = VBool(FALSE)
                             /\ Get(e, "vision") = VBool(FALSE)
                       /\ ~catalog[i].has_max =>
                             /\ Get(e, "maxInputTokens") = VInt(8192)
                             /\ Get(e, "maxOutputTokens") = VInt(8192)

\* an llm without "id" after a good one, an existing settings file: the run
\* ended with KeyError and touched nothing
C9_Witness ==
    /\ catalog = <<DescLLM, DescLLMNoId>>
    /\ mode = "file"
    /\ pc = "done"
    /\ error = "KeyError"
    /\ exit_code = ExitFailure
    /\ pre_target.exists
    /\ FilesUntouched

IsPermutation(a, b) ==
    /\ Len(a) = Len(b)
    /\ {a[i] : i \in 1..Len(a)} = {b[i] : i \in 1..Len(b)}
IsSortedByKey(items) ==
    \A i \in 1..(Len(items) - 1) : StrLess(items[i].key, items[i + 1].key)

\* C10: the synthesized mapping holds exactly the identifiers of the
\* descriptors of type llm or vlm, in ascending order, each entry with its
\* fields in alphabetical order, and every permutation of the catalog
\* serializes to the same text.
C10_FilteredSortedStable ==
    (pc = "synthesized" /\ error = "none") =>
        /\ Keys(config)
             = {catalog[i].id : i \in {j \in 1..Len(catalog) :
                    catalog[j].has_type /\ catalog[j].type \in {"llm", "vlm"}}}
        /\ Cardinality(Keys(config)) = Len(config)
        /\ IsSortedByKey(config)
        /\ \A i \in 1..Len(config) :
              /\ IsSortedByKey(config[i].val.m)
              /\ Keys(config[i].val.m)
                   = {"maxInputTokens", "maxOutputTokens", "name",
                      "requiresAPIKey", "thinking", "toolCalling", "url",
                      "vision"}
        /\ \A other \in Catalogs :
              IsPermutation(other, catalog) =>
                  json_dumps(VDict(generate_copilot_config(other, OpenaiUrl).config), 2)
                    = json_dumps(VDict(config), 2)

\* "m1" came before "Z9" in the catalog, an embedding model between them
C10_Witness ==
    /\ pc = "synthesized"
    /\ catalog = <<DescLLM, DescEmbedding, DescVLM>>
    /\ Len(config) = 2
    /\ config[1].key = "Z9"
    /\ config[2].key = "m1"

====
